---- MODULE Spec2Model ----
(***************************************************************************)
(* Model of report.py (wiqilee/grounds): a command-line script that reads  *)
(* a JSON file, renders it through the Jinja2 template stored next to the  *)
(* script and writes the rendered text to the output path.                 *)
(*                                                                         *)
(* The state is the file system the script works on, the position of the   *)
(* running process in main(), main's local variables, the process's        *)
(* standard output and exit status, and history variables that record      *)
(* what each run did.  The script may be invoked several times in a row on *)
(* the same file system.                                                   *)
(***************************************************************************)
EXTENDS Integers, Sequences, FiniteSets, TLC

\* ------------------------------------------------------------------ bounds

\* Number of invocations of the script in one behaviour.
MaxRuns == 2

\* Largest number of trailing newlines of the template file at the start.
MaxNl == 1

\* ------------------------------------------------------------ JSON values

\* A parsed JSON document.  An object is a set of <<key, value>> pairs with
\* distinct keys; any other JSON value keeps only its type and its literal.
Obj(items) == [type |-> "object", items |-> items, lit |-> ""]

NonObj(type, lit) == [type |-> type, items |-> {}, lit |-> lit]

\* The value of a local variable of main that has not been assigned yet.
NoDoc == NonObj("unset", "")

DocTitled == Obj({<<"title", "Q1 Report">>, <<"rows", "[1, 2, 3]">>})

DocUntitled == Obj({<<"rows", "[1, 2, 3]">>})

DocArray == NonObj("array", "[1, 2, 3]")

\* ------------------------------------------------------------------ texts

\* The contents of a file, or a str value of the program.  form tells what
\* the text is: "json" (the serialisation of doc), "truncated" (a JSON text
\* cut short), "j2" (the report template, with its placeholders), "j2bad" (a
\* template with a Jinja2 syntax error), "html" (the template's output for
\* title and doc).  nl is the number of newlines the text ends with.
Text(form, doc, title, nl) == [form |-> form, doc |-> doc, title |-> title, nl |-> nl]

\* No file at the path.
Absent == Text("absent", NoDoc, "", 0)

\* A local variable of main that has not been assigned yet.
NoText == Text("unset", NoDoc, "", 0)

JsonText(doc) == Text("json", doc, "", 0)

TruncatedJson == Text("truncated", NoDoc, "", 0)

\* A file that was opened for writing and received no data.
EmptyText == Text("empty", NoDoc, "", 0)

TemplateSource(nl) == Text("j2", NoDoc, "", nl)

BrokenTemplate == Text("j2bad", NoDoc, "", 0)

\* A report left at the output path by some earlier use.
OldReport == Text("html", DocUntitled, "Old Report", 0)

\* ------------------------------------------------------------------ paths

\* HERE / "template.html.j2"
TEMPLATE == "template.html.j2"

\* A path whose parent directory does not exist.
NoDirPath == "nodir/out.html"

\* A path on a device with no space left.
FullPath == "full/out.html"

Paths == {"in.json", "out.html", TEMPLATE, NoDirPath, FullPath}

\* A required command-line option that was not given.
NoArg == "<missing>"

\* The command lines the script is started with: every pair of paths, and
\* the two command lines that leave out a required option.
CommandLines ==
    {[inp |-> i, out |-> o] : i \in Paths, o \in Paths}
        \cup {[inp |-> NoArg, out |-> "out.html"], [inp |-> "in.json", out |-> NoArg]}

VARIABLES
    fs,       \* the file system: path -> Text or Absent
    pc,       \* position of the process in main()
    argv,     \* the command line of the current run: [inp, out]
    raw,      \* the str read from args.inp
    data,     \* main's local data
    tpl,      \* main's local tpl (the compiled template)
    ctx,      \* the keyword arguments of tpl.render
    html,     \* main's local html
    stdout,   \* lines printed by the current run
    status,   \* exit status of the current run (meaningful when pc = "done")
    error,    \* the exception that ended the current run, "" if none
    trace,    \* the operations the current run has started, as <<op, path>>
    runs,     \* number of runs started
    fs0,      \* the file system when the current run started
    fsInit,   \* the file system before the first run
    outs,     \* the output paths of all runs started so far
    prev      \* what the previous run was given and what it left

vars == <<fs, pc, argv, raw, data, tpl, ctx, html, stdout, status, error, trace,
          runs, fs0, fsInit, outs, prev>>

locals == <<raw, data, tpl, ctx, html>>

history == <<runs, fs0, fsInit, outs, prev>>

NoCtx == [title |-> "", data |-> NoDoc]

NoPrev == [argv |-> [inp |-> NoArg, out |-> NoArg], status |-> 1,
           template |-> Absent, content |-> Absent]

\* ------------------------------------------------------- library functions

\* Path.read_text: the file's contents; FileNotFoundError when there is no
\* file at the path.
read_text(files, p) ==
    IF files[p] = Absent
    THEN [ok |-> FALSE, exc |-> "FileNotFoundError", text |-> NoText]
    ELSE [ok |-> TRUE, exc |-> "", text |-> files[p]]

\* write_text as it would be with the file opened in append mode: the text
\* is added to what the file holds.
write_text_append(files, p, text) ==
    IF p = NoDirPath
    THEN [ok |-> FALSE, exc |-> "FileNotFoundError", files |-> files]
    ELSE IF p = FullPath
    THEN [ok |-> FALSE, exc |-> "OSError", files |-> files]
    ELSE [ok |-> TRUE, exc |-> "",
          files |-> [files EXCEPT ![p] = IF files[p] = Absent THEN text
                                         ELSE [text EXCEPT !.form = "appended"]]]

\* Path.write_text: opens the file for writing, which creates or truncates
\* it, and writes the text.  FileNotFoundError, and no file, when the parent
\* directory does not exist; OSError when the device is full, after the open
\* has created or truncated the file.
write_text(files, p, text) ==
    IF p = NoDirPath
    THEN [ok |-> FALSE, exc |-> "FileNotFoundError", files |-> files]
    ELSE IF p = FullPath
    THEN [ok |-> FALSE, exc |-> "OSError", files |-> [files EXCEPT ![p] = EmptyText]]
    ELSE [ok |-> TRUE, exc |-> "", files |-> [files EXCEPT ![p] = text]]

\* json.loads as it would be if a text that does not parse were taken for
\* an empty document.
json_loads_lenient(text) ==
    IF text.form = "json"
    THEN [ok |-> TRUE, exc |-> "", value |-> text.doc]
    ELSE [ok |-> TRUE, exc |-> "", value |-> Obj({})]

\* json.loads: the value a JSON text denotes (trailing whitespace ignored);
\* JSONDecodeError for any other text.
json_loads(text) ==
    IF text.form = "json"
    THEN [ok |-> TRUE, exc |-> "", value |-> text.doc]
    ELSE [ok |-> FALSE, exc |-> "JSONDecodeError", value |-> NoDoc]

\* jinja2.Template(source): compiles the source; TemplateSyntaxError on a
\* malformed tag.  keep_trailing_newline is off, so one trailing newline of
\* the source is dropped.
Template(text) ==
    IF text.form = "j2bad"
    THEN [ok |-> FALSE, exc |-> "TemplateSyntaxError", tpl |-> NoText]
    ELSE [ok |-> TRUE, exc |-> "",
          tpl |-> [text EXCEPT !.nl = IF text.nl > 0 THEN text.nl - 1 ELSE 0]]

\* dict.get(key, default)
DictGet(d, key, default) ==
    IF \E p \in d.items : p[1] = key
    THEN (CHOOSE p \in d.items : p[1] = key)[2]
    ELSE default

\* Template.render as it would be if the output carried something that
\* differs from run to run (here: the number of the run).
RenderTextStamped(t, c) ==
    IF t.form = "j2"
    THEN Text("html", c.data, c.title, t.nl + runs)
    ELSE t

\* Template.render(title=..., data=...): the report template substitutes the
\* context into its placeholders; a source without placeholders (an HTML,
\* JSON or empty text) renders to itself.
RenderText(t, c) ==
    IF t.form = "j2"
    THEN Text("html", c.data, c.title, t.nl)
    ELSE t

\* ----------------------------------------------------------------- main()

\* Raise as it would be if main caught the exception and returned.
RaiseSwallowed(exc) ==
    /\ pc' = "done"
    /\ status' = 0
    /\ error' = exc

\* An uncaught exception: the interpreter prints the traceback to stderr and
\* the process ends with status 1.
Raise(exc) ==
    /\ pc' = "done"
    /\ status' = 1
    /\ error' = exc

\* python report.py --in i --out o: a new process starts in main().
Invoke(cmd) ==
    /\ pc \in {"idle", "done"}
    /\ runs < MaxRuns
    /\ runs' = runs + 1
    /\ argv' = cmd
    /\ pc' = "parse_args"
    /\ raw' = NoText
    /\ data' = NoDoc
    /\ tpl' = NoText
    /\ ctx' = NoCtx
    /\ html' = NoText
    /\ stdout' = <<>>
    /\ status' = 0
    /\ error' = ""
    /\ trace' = <<>>
    /\ fs0' = fs
    /\ outs' = IF cmd.out \in Paths THEN outs \cup {cmd.out} ELSE outs
    /\ prev' = IF pc = "done"
               THEN [argv |-> argv, status |-> status, template |-> fs0[TEMPLATE],
                     content |-> IF argv.out \in Paths THEN fs[argv.out] ELSE Absent]
               ELSE prev
    /\ UNCHANGED <<fs, fsInit>>

\* args = ap.parse_args(): both options are required; argparse prints the
\* usage to stderr and exits with status 2 when one is missing.
ParseArgs ==
    /\ pc = "parse_args"
    /\ IF argv.inp = NoArg \/ argv.out = NoArg
       THEN /\ pc' = "done"
            /\ status' = 2
            /\ error' = "SystemExit"
       ELSE /\ pc' = "read_input"
            /\ UNCHANGED <<status, error>>
    /\ UNCHANGED <<fs, argv, locals, stdout, trace, history>>

\* ReadInput as it would be if the template were loaded before the input
\* is read.
ReadInputTemplateFirst ==
    /\ pc = "read_input"
    /\ LET t == read_text(fs, TEMPLATE)
           r == read_text(fs, argv.inp)
       IN  IF ~t.ok
           THEN /\ trace' = Append(trace, <<"load_template", TEMPLATE>>)
                /\ Raise(t.exc)
                /\ UNCHANGED raw
           ELSE /\ trace' = trace \o <<(<<"load_template", TEMPLATE>>),
                                       (<<"read_input", argv.inp>>)>>
                /\ IF r.ok
                   THEN /\ raw' = r.text
                        /\ pc' = "loads"
                        /\ UNCHANGED <<status, error>>
                   ELSE /\ Raise(r.exc)
                        /\ UNCHANGED raw
    /\ UNCHANGED <<fs, argv, data, tpl, ctx, html, stdout, history>>

\* Path(args.inp).read_text(encoding="utf-8")
ReadInput ==
    /\ pc = "read_input"
    /\ trace' = Append(trace, <<"read_input", argv.inp>>)
    /\ LET r == read_text(fs, argv.inp)
       IN  IF r.ok
           THEN /\ raw' = r.text
                /\ pc' = "loads"
                /\ UNCHANGED <<status, error>>
           ELSE /\ Raise(r.exc)
                /\ UNCHANGED raw
    /\ UNCHANGED <<fs, argv, data, tpl, ctx, html, stdout, history>>

\* data = json.loads(...)
LoadJson ==
    /\ pc = "loads"
    /\ trace' = Append(trace, <<"loads", "">>)
    /\ LET r == json_loads(raw)
       IN  IF r.ok
           THEN /\ data' = r.value
                /\ pc' = "load_template"
                /\ UNCHANGED <<status, error>>
           ELSE /\ Raise(r.exc)
                /\ UNCHANGED data
    /\ UNCHANGED <<fs, argv, raw, tpl, ctx, html, stdout, history>>

\* tpl = Template(TEMPLATE.read_text(encoding="utf-8"))
LoadTemplate ==
    /\ pc = "load_template"
    /\ trace' = Append(trace, <<"load_template", TEMPLATE>>)
    /\ LET r == read_text(fs, TEMPLATE)
           t == Template(r.text)
       IN  IF ~r.ok
           THEN /\ Raise(r.exc)
                /\ UNCHANGED tpl
           ELSE IF ~t.ok
           THEN /\ Raise(t.exc)
                /\ UNCHANGED tpl
           ELSE /\ tpl' = t.tpl
                /\ pc' = "render"
                /\ UNCHANGED <<status, error>>
    /\ UNCHANGED <<fs, argv, raw, data, ctx, html, stdout, history>>

\* Context as it would be if the document's title were not looked up.
ContextDefaultTitle(d) == [title |-> "Grounds Report", data |-> d]

\* The keyword arguments of tpl.render.
Context(d) == [title |-> DictGet(d, "title", "Grounds Report"), data |-> d]

\* html = tpl.render(title=data.get("title","Grounds Report"), data=data):
\* only a dict has .get; on any other JSON value the attribute lookup raises
\* AttributeError before render is called.
Render ==
    /\ pc = "render"
    /\ trace' = Append(trace, <<"render", "">>)
    /\ IF data.type = "object"
       THEN /\ ctx' = Context(data)
            /\ html' = RenderText(tpl, Context(data))
            /\ pc' = "write"
            /\ UNCHANGED <<status, error>>
       ELSE /\ Raise("AttributeError")
            /\ UNCHANGED <<ctx, html>>
    /\ UNCHANGED <<fs, argv, raw, data, tpl, stdout, history>>

\* WriteOutput as it would be if a failed write were ignored.
WriteOutputUnchecked ==
    /\ pc = "write"
    /\ trace' = Append(trace, <<"write", argv.out>>)
    /\ fs' = write_text(fs, argv.out, html).files
    /\ pc' = "print"
    /\ UNCHANGED <<argv, locals, stdout, status, error, history>>

\* WriteOutput as it would be if the text were written to args.inp.
WriteOutputToInput ==
    /\ pc = "write"
    /\ trace' = Append(trace, <<"write", argv.inp>>)
    /\ LET r == write_text(fs, argv.inp, html)
       IN  /\ fs' = r.files
           /\ IF r.ok
              THEN /\ pc' = "print"
                   /\ UNCHANGED <<status, error>>
              ELSE Raise(r.exc)
    /\ UNCHANGED <<argv, locals, stdout, history>>

\* Path(args.out).write_text(html, encoding="utf-8")
WriteOutput ==
    /\ pc = "write"
    /\ trace' = Append(trace, <<"write", argv.out>>)
    /\ LET r == write_text(fs, argv.out, html)
       IN  /\ fs' = r.files
           /\ IF r.ok
              THEN /\ pc' = "print"
                   /\ UNCHANGED <<status, error>>
              ELSE Raise(r.exc)
    /\ UNCHANGED <<argv, locals, stdout, history>>

\* PrintWrote as it would be with the confirmation printed twice.
PrintWroteTwice ==
    /\ pc = "print"
    /\ trace' = Append(trace, <<"print", "">>)
    /\ stdout' = stdout \o <<(<<"Wrote:", argv.out>>), (<<"Wrote:", argv.out>>)>>
    /\ pc' = "done"
    /\ status' = 0
    /\ UNCHANGED <<fs, argv, locals, error, history>>

\* print("Wrote:", args.out), after which main returns and the process ends
\* with status 0.
PrintWrote ==
    /\ pc = "print"
    /\ trace' = Append(trace, <<"print", "">>)
    /\ stdout' = Append(stdout, <<"Wrote:", argv.out>>)
    /\ pc' = "done"
    /\ status' = 0
    /\ UNCHANGED <<fs, argv, locals, error, history>>

\* ---------------------------------------------------------- specification

\* The file system before the first run: the input may be missing, hold a
\* JSON object with or without a title, a JSON array, or a truncated JSON
\* text; the output may exist already; the template may be missing, broken,
\* or the report template.
InitialFiles ==
    {[p \in Paths |->
         CASE p = "in.json" -> i
           [] p = "out.html" -> o
           [] p = TEMPLATE -> t
           [] OTHER -> Absent] :
       i \in {Absent, JsonText(DocTitled), JsonText(DocUntitled), JsonText(DocArray),
              TruncatedJson},
       o \in {Absent, OldReport},
       t \in {Absent, BrokenTemplate} \cup {TemplateSource(n) : n \in 0..MaxNl}}

Init ==
    /\ fs \in InitialFiles
    /\ fsInit = fs
    /\ fs0 = fs
    /\ pc = "idle"
    /\ argv = [inp |-> NoArg, out |-> NoArg]
    /\ raw = NoText
    /\ data = NoDoc
    /\ tpl = NoText
    /\ ctx = NoCtx
    /\ html = NoText
    /\ stdout = <<>>
    /\ status = 0
    /\ error = ""
    /\ trace = <<>>
    /\ runs = 0
    /\ outs = {}
    /\ prev = NoPrev

Next ==
    \/ \E cmd \in CommandLines : Invoke(cmd)
    \/ ParseArgs
    \/ ReadInput
    \/ LoadJson
    \/ LoadTemplate
    \/ Render
    \/ WriteOutput
    \/ PrintWrote

Spec == Init /\ [][Next]_vars

\* ------------------------------------------------------------- properties

\* Both options were given on the command line of the current run.
ArgsGiven == argv.inp \in Paths /\ argv.out \in Paths

\* A run with both options given has been started.
InRun == pc # "idle" /\ ArgsGiven

\* The current run has started operation op.
Did(op) == \E i \in 1..Len(trace) : trace[i][1] = op

Ops == [i \in 1..Len(trace) |-> trace[i][1]]

IsPrefix(s, t) == Len(s) <= Len(t) /\ \A i \in 1..Len(s) : s[i] = t[i]

\* A file exists and does not hold a JSON text.
NotJson(t) == t # Absent /\ t.form # "json"

Pipeline == <<"read_input", "loads", "load_template", "render", "write", "print">>

Succeeded == pc = "done" /\ status = 0

\* C1: when the input file exists and its contents are not valid JSON, the
\* run ends with a JSONDecodeError and a non-zero status, it never starts a
\* write, and every file, the one at the output path included, is as it was
\* when the run started (absent if it was absent, unchanged if it existed).
C1_MalformedInputNeverWrites ==
    (InRun /\ NotJson(fs0[argv.inp])) =>
        /\ fs = fs0
        /\ ~Did("write")
        /\ pc \in {"parse_args", "read_input", "loads", "done"}
        /\ (pc = "done" => status # 0 /\ error = "JSONDecodeError" /\ stdout = <<>>)

\* A run on a truncated JSON input has ended, with a report already at the
\* output path.
C1_Witness ==
    /\ pc = "done"
    /\ ArgsGiven
    /\ fs0[argv.inp] = TruncatedJson
    /\ argv.out # argv.inp
    /\ fs0[argv.out] = OldReport
    /\ error = "JSONDecodeError"

\* C2: for every valid JSON value in the input file (with the report
\* template in place and a writable output path) the run ends without error
\* and the output path holds the rendered text of that input.
C2_EveryJsonValueRenders ==
    (/\ pc = "done"
     /\ ArgsGiven
     /\ fs0[argv.inp].form = "json"
     /\ fs0[TEMPLATE].form = "j2"
     /\ argv.out \notin {NoDirPath, FullPath}) =>
        /\ status = 0
        /\ error = ""
        /\ html.form = "html"
        /\ html.doc = fs0[argv.inp].doc
        /\ fs[argv.out] = html

\* C3: whenever the rendering context has been built, its title is the value
\* of the input document's title key if the document has one and "Grounds
\* Report" if it has none, and its data is the whole input document; and the
\* context has been built whenever rendering went through.
C3_ContextTitleAndData ==
    /\ ctx # NoCtx =>
           LET doc == fs0[argv.inp].doc
               titles == {p[2] : p \in {q \in doc.items : q[1] = "title"}}
           IN  /\ ArgsGiven
               /\ fs0[argv.inp].form = "json"
               /\ ctx.data = doc
               /\ titles # {} => ctx.title \in titles
               /\ titles = {} => ctx.title = "Grounds Report"
    /\ html # NoText => ctx # NoCtx

\* A context was built from a document that has a title.
C3_Witness ==
    /\ ctx # NoCtx
    /\ <<"title", "Q1 Report">> \in ctx.data.items
    /\ ctx.title = "Q1 Report"

\* The current run has ended and repeats the previous run: same command
\* line, the previous run succeeded, and the template file is what it was
\* when the previous run started.
Rerun ==
    /\ pc = "done"
    /\ ArgsGiven
    /\ prev.argv = argv
    /\ prev.status = 0
    /\ fs0[TEMPLATE] = prev.template

\* C4 as stated: a rerun succeeds and leaves at the output path what the
\* first run left there, for every choice of the two paths.
C4_RerunIdentical ==
    Rerun => status = 0 /\ fs[argv.out] = prev.content

\* C4 amended: a rerun with an output path other than the input path
\* succeeds and leaves at the output path what the first run left there.
C4_RerunIdenticalDistinctPaths ==
    (Rerun /\ argv.inp # argv.out) => status = 0 /\ fs[argv.out] = prev.content

\* A rerun to an output path other than the input path has ended.
C4_Witness ==
    /\ Rerun
    /\ argv.inp # argv.out
    /\ runs = 2
    /\ fs[argv.out].form = "html"

\* The run is bound to fail: an option is missing, the input is missing or
\* is not a JSON object, the template is missing or broken, or the output
\* path cannot be written.
BoundToFail ==
    \/ ~ArgsGiven
    \/ fs0[argv.inp] = Absent
    \/ fs0[argv.inp].form # "json"
    \/ fs0[argv.inp].doc.type # "object"
    \/ fs0[TEMPLATE] = Absent
    \/ fs0[TEMPLATE].form = "j2bad"
    \/ argv.out \in {NoDirPath, FullPath}

\* C5: a run ends in one of two ways.  Either it failed: the status is not
\* zero and nothing was printed; or it succeeded: the status is zero and
\* the one line printed is "Wrote: <outputPath>".  A run that is bound to
\* fail fails, any other succeeds, and nothing is printed before the end.
C5_ExitOutcome ==
    /\ pc # "done" => stdout = <<>>
    /\ pc = "done" =>
        /\ status \in {0, 1, 2}
        /\ (status = 0) = (error = "")
        /\ (status = 0) = ~BoundToFail
        /\ status = 0 => stdout = << <<"Wrote:", argv.out>> >>
        /\ status # 0 => stdout = <<>>

\* A run has failed at the write to an unwritable destination.
C5_Witness ==
    /\ pc = "done"
    /\ Did("write")
    /\ status = 1
    /\ stdout = <<>>

\* C6: when there is no file at the input path the run ends with a
\* FileNotFoundError right after the attempt to read it: the template is not
\* loaded, nothing is rendered, nothing is written.
C6_MissingInputFailsFirst ==
    (InRun /\ fs0[argv.inp] = Absent) =>
        /\ ~Did("load_template")
        /\ ~Did("render")
        /\ ~Did("write")
        /\ tpl = NoText
        /\ html = NoText
        /\ fs = fs0
        /\ (pc = "done" => status # 0 /\ error = "FileNotFoundError" /\ Ops = <<"read_input">>)

\* A run on a missing input has ended, with the report template in place.
C6_Witness ==
    /\ pc = "done"
    /\ ArgsGiven
    /\ fs0[argv.inp] = Absent
    /\ fs0[TEMPLATE].form = "j2"
    /\ error = "FileNotFoundError"

\* The writes the current run has started.
Writes == {i \in 1..Len(trace) : trace[i][1] = "write"}

\* C7: no run starts more than one write, changes more than one file or
\* prints more than one line; a successful run has made exactly one write,
\* to the output path, and printed exactly one line.
C7_OneWriteOneLine ==
    /\ Cardinality(Writes) <= 1
    /\ Cardinality({p \in Paths : fs[p] # fs0[p]}) <= 1
    /\ Len(stdout) <= 1
    /\ Succeeded =>
        /\ Cardinality(Writes) = 1
        /\ \A i \in Writes : trace[i][2] = argv.out
        /\ Len(stdout) = 1

\* A run has succeeded and has changed the file at the output path.
C7_Witness ==
    /\ Succeeded
    /\ Len(stdout) = 1
    /\ fs[argv.out] # fs0[argv.out]

\* C8: after a successful run the output path holds exactly the text the
\* template, as it was when the run started, renders for the input document,
\* whatever the output path held before.
C8_OutputIsRenderedText ==
    Succeeded =>
        fs[argv.out] = RenderText(Template(fs0[TEMPLATE]).tpl, Context(fs0[argv.inp].doc))

\* A successful run has replaced a report that was at the output path.
C8_Witness ==
    /\ Succeeded
    /\ fs0[argv.out] = OldReport
    /\ fs[argv.out] # OldReport
    /\ fs[argv.out].form = "html"

\* The operation an exception of the current run comes from.
RaisedBy ==
    CASE error = "SystemExit" -> {}
      [] error = "JSONDecodeError" -> {"loads"}
      [] error = "TemplateSyntaxError" -> {"load_template"}
      [] error = "AttributeError" -> {"render"}
      [] error = "OSError" -> {"write"}
      [] OTHER -> {"read_input", "load_template", "write"}

\* C9: the operations of a run are an initial part of read, parse, load,
\* render, write, print, in that order; the input is read and parsed before
\* rendering, the text is rendered before the write starts, and the
\* confirmation is printed only with the rendered text at the output path;
\* an exception ends the run at the operation that raised it, and a run
\* that succeeds has gone through every operation.
C9_StrictSequence ==
    /\ IsPrefix(Ops, Pipeline)
    /\ Did("render") => raw = fs0[argv.inp] /\ data = raw.doc /\ tpl # NoText
    /\ Did("write") => html # NoText
    /\ Did("print") => fs[argv.out] = html /\ stdout # <<>>
    /\ stdout # <<>> => Did("print")
    /\ error # "" =>
        /\ pc = "done"
        /\ stdout = <<>>
        /\ IF trace = <<>> THEN error = "SystemExit" ELSE Ops[Len(trace)] \in RaisedBy
    /\ Succeeded => Ops = Pipeline

\* A run has ended at the loading of the template, which is missing.
C9_Witness ==
    /\ pc = "done"
    /\ error = "FileNotFoundError"
    /\ Ops = <<"read_input", "loads", "load_template">>

\* C10: a file keeps the contents it had before the first run as long as no
\* run was given its path as output path; during and after a run every file
\* but the one at the output path is as it was when the run started; and a
\* successful run whose output path is the input path leaves the rendered
\* text where the input's JSON was.
C10_OnlyOutputPathChanges ==
    /\ \A p \in Paths \ outs : fs[p] = fsInit[p]
    /\ pc # "idle" => \A p \in Paths \ {argv.out} : fs[p] = fs0[p]
    /\ (Succeeded /\ argv.inp = argv.out) =>
        /\ fs0[argv.inp].form = "json"
        /\ fs[argv.inp] = html
        /\ html = RenderText(tpl, ctx)

\* A successful run has overwritten its own input and left the template as
\* it was before the first run.
C10_Witness ==
    /\ Succeeded
    /\ argv.inp = argv.out
    /\ fs[TEMPLATE] = fsInit[TEMPLATE]
    /\ fs[argv.inp].form = "html"

====
